---- MODULE Spec2Model ----
(***************************************************************************)
(* A model of custom_components/fan_group/fan.py: the FanGroup entity,     *)
(* which mirrors the state of its member fans and forwards commands to     *)
(* all of them through the service dispatcher.                             *)
(***************************************************************************)
EXTENDS Integers, Sequences, FiniteSets, TLC

(***************************************************************************)
(* Bounds of the model.                                                    *)
(***************************************************************************)
\* the longest member-id list a group is constructed with
MaxMembers == 3
\* the number of registrations (async_added_to_hass calls) in one behaviour
MaxRegistrations == 2
\* the number of command coroutines suspended in their dispatcher call at once
MaxInFlight == 1
\* the number of updates the listener has requested and that have not run yet
MaxScheduled == 1

(***************************************************************************)
(* Python values.  Attribute bags are duck-typed, so every value carries   *)
(* its type: None, bool, int, str or a list of strings.                    *)
(***************************************************************************)
None == [ty |-> "none", i |-> 0, s |-> "", l |-> <<>>]
PyInt(n) == [ty |-> "int", i |-> n, s |-> "", l |-> <<>>]
PyBool(b) == [ty |-> "bool", i |-> IF b THEN 1 ELSE 0, s |-> "", l |-> <<>>]
PyStr(x) == [ty |-> "str", i |-> 0, s |-> x, l |-> <<>>]
PyList(q) == [ty |-> "list", i |-> 0, s |-> "", l |-> q]

\* homeassistant.components.fan / homeassistant.const, as imported
SUPPORT_SET_SPEED == 1
SUPPORT_OSCILLATE == 2
SUPPORT_DIRECTION == 4
SPEED_OFF == "off"
STATE_ON == "on"
STATE_UNAVAILABLE == "unavailable"
FAN_DOMAIN == "fan"

RECURSIVE BitOr(_, _)
\* a | b on non-negative integers
BitOr(a, b) ==
    IF a = 0 THEN b
    ELSE IF b = 0 THEN a
    ELSE (IF a % 2 = 1 \/ b % 2 = 1 THEN 1 ELSE 0) + 2 * BitOr(a \div 2, b \div 2)

RECURSIVE BitAnd(_, _)
\* a & b on non-negative integers
BitAnd(a, b) ==
    IF a = 0 \/ b = 0 THEN 0
    ELSE (IF a % 2 = 1 /\ b % 2 = 1 THEN 1 ELSE 0) + 2 * BitAnd(a \div 2, b \div 2)

SUPPORT_GROUP_FAN == BitOr(BitOr(SUPPORT_DIRECTION, SUPPORT_OSCILLATE), SUPPORT_SET_SPEED)

(***************************************************************************)
(* Member states as the state store returns them.  hass.states.get(x)      *)
(* returns None for an entity id it does not know: NoState.  A missing     *)
(* attribute reads as None (dict.get).                                     *)
(***************************************************************************)
NoAttributes ==
    [speed |-> None, speed_list |-> None, direction |-> None,
     oscillating |-> None, supported_features |-> None]
NoState == [state |-> "<None>", attributes |-> NoAttributes]
MkState(st, attrs) == [state |-> st, attributes |-> attrs]

\* the entity ids a group can be configured with
Entities == 1..MaxMembers

VARIABLES
    entity_ids,                 \* self._entity_ids
    is_on,                      \* self._is_on
    available,                  \* self._available
    speed,                      \* self._speed
    speed_list,                 \* self._speed_list
    direction,                  \* self._direction
    oscillating,                \* self._oscillating
    supported_features,         \* self._supported_features
    async_unsub_state_changed,  \* self._async_unsub_state_changed: a handle, 0 is None
    snap,                       \* what hass.states.get returned to the last async_update
    calls,                      \* hass.services.async_call calls of the last operation
                                \* that returned or raised
    inflight,                   \* the command coroutines suspended in `await async_call`
    op,                         \* the last operation, its argument and how it ended
    released,                   \* per subscription handle: times its unsubscribe ran
    overwritten,                \* handles replaced in the field while still held
    pending                     \* number of updates the listener scheduled, not yet run

vars ==
    <<entity_ids, is_on, available, speed, speed_list, direction, oscillating,
      supported_features, async_unsub_state_changed, snap, calls, inflight, op,
      released, overwritten, pending>>

aggregate ==
    <<is_on, available, speed, speed_list, direction, oscillating, supported_features>>

(***************************************************************************)
(* The reducer: async_update and its helpers.                              *)
(***************************************************************************)
\* [self.hass.states.get(x) for x in self._entity_ids]
all_states(ids, store) == [k \in 1..Len(ids) |-> store[ids[k]]]

\* list(filter(None, all_states))
resolved_states(ids, store) == SelectSeq(all_states(ids, store), LAMBDA st : st # NoState)

\* [state for state in states if state.state == STATE_ON]
on_states(states) == SelectSeq(states, LAMBDA st : st.state = STATE_ON)

\* is_on taken from the resolved states instead of the on states
compute_is_on_any_resolved(states) == Len(states) > 0

\* len(on_states) > 0
compute_is_on(states) == Len(on_states(states)) > 0

\* all() in the place of any()
compute_available_all(states) == \A k \in 1..Len(states) : states[k].state # STATE_UNAVAILABLE

\* any(state.state != STATE_UNAVAILABLE for state in states)
compute_available(states) == \E k \in 1..Len(states) : states[k].state # STATE_UNAVAILABLE

RECURSIVE find_state_attributes(_, _)
\* the values of attribute key of the states, in order, None skipped
find_state_attributes(states, key) ==
    IF states = <<>> THEN <<>>
    ELSE LET value == Head(states).attributes[key]
             rest == find_state_attributes(Tail(states), key)
         IN  IF value # None THEN <<value>> \o rest ELSE rest

RECURSIVE SumInts(_)
SumInts(args) == IF args = <<>> THEN 0 ELSE Head(args).i + SumInts(Tail(args))

\* int(x / n): true division, then truncation towards zero
TruncDiv(x, n) == IF x >= 0 THEN x \div n ELSE -((-x) \div n)

\* _mean_int(*args): sum() starts from the int 0 and raises TypeError on the
\* first argument that is no number (bool is a number)
mean_int(args) ==
    IF \E k \in 1..Len(args) : args[k].ty \notin {"int", "bool"}
    THEN [raised |-> TRUE, value |-> None]
    ELSE [raised |-> FALSE, value |-> PyInt(TruncDiv(SumInts(args), Len(args)))]

\* _reduce_attribute(states, key) with default=None and reduce=_mean_int
reduce_attribute(states, key) ==
    LET attrs == find_state_attributes(states, key)
    IN  IF attrs = <<>> THEN [raised |-> FALSE, value |-> None]
        ELSE IF Len(attrs) = 1 THEN [raised |-> FALSE, value |-> attrs[1]]
        ELSE mean_int(attrs)

Range(q) == {q[k] : k \in 1..Len(q)}

\* set().union(*all_speed_lists): the elements of the supplied lists
union_speed_lists(lists) == UNION {Range(lists[k].l) : k \in 1..Len(lists)}

\* list(a_set): every element once, in the set's iteration order, which for
\* strings changes with the hash seed of the interpreter; any order can come out
list_of_set(S) == {q \in [1..Cardinality(S) -> S] : Range(q) = S}

\* the values self._speed_list can get from lines 201-204
compute_speed_list(lists) ==
    IF lists = <<>> THEN {None}
    ELSE {PyList(q) : q \in list_of_set(union_speed_lists(lists))}

RECURSIVE Counter(_)
\* Counter(iterable): the distinct elements in order of first appearance, each
\* with the number of its occurrences (a dict keeps insertion order)
Counter(elems) ==
    IF elems = <<>> THEN <<>>
    ELSE LET c == Counter(SubSeq(elems, 1, Len(elems) - 1))
             x == elems[Len(elems)]
         IN  IF \E k \in 1..Len(c) : c[k].key = x
             THEN [k \in 1..Len(c) |->
                      IF c[k].key = x THEN [c[k] EXCEPT !.count = @ + 1] ELSE c[k]]
             ELSE Append(c, [key |-> x, count |-> 1])

RECURSIVE MaxByCount(_, _)
\* max(items, key=count): the first of the items with the largest count
MaxByCount(items, best) ==
    IF items = <<>> THEN best
    ELSE MaxByCount(Tail(items),
                    IF Head(items).count > best.count THEN Head(items) ELSE best)

\* speed_count.most_common(1)[0][0]
most_common(c) == MaxByCount(Tail(c), Head(c)).key

\* the value self._speed gets from lines 206-210
compute_speed(speeds) == IF speeds = <<>> THEN None ELSE most_common(Counter(speeds))

RECURSIVE OrAll(_)
OrAll(feats) == IF feats = <<>> THEN 0 ELSE BitOr(Head(feats).i, OrAll(Tail(feats)))

\* the value self._supported_features gets from lines 212-216
compute_supported_features(feats) == BitAnd(OrAll(feats), SUPPORT_GROUP_FAN)

\* whether async_update ends in the TypeError of _mean_int (line 198 or 199)
update_raises(store) ==
    LET ons == on_states(resolved_states(entity_ids, store))
    IN  \/ reduce_attribute(ons, "direction").raised
        \/ reduce_attribute(ons, "oscillating").raised

\* FanGroup.async_update, reading `store` from hass.states.  The method has no
\* await in it, so it runs as one step; when _mean_int raises, the fields
\* assigned before the raising line keep their new values and the others
\* keep their old ones.
async_update(store) ==
    LET states == resolved_states(entity_ids, store)
        ons == on_states(states)
        d == reduce_attribute(ons, "direction")
        o == reduce_attribute(ons, "oscillating")
    IN  /\ snap' = store
        /\ is_on' = compute_is_on(states)
        /\ available' = compute_available(states)
        /\ IF d.raised
           THEN UNCHANGED <<direction, oscillating, speed_list, speed, supported_features>>
           ELSE /\ direction' = d.value
                /\ IF o.raised
                   THEN UNCHANGED <<oscillating, speed_list, speed, supported_features>>
                   ELSE /\ oscillating' = o.value
                        /\ speed_list' \in
                             compute_speed_list(find_state_attributes(states, "speed_list"))
                        /\ speed' = compute_speed(find_state_attributes(states, "speed"))
                        /\ supported_features' =
                             compute_supported_features(
                                 find_state_attributes(states, "supported_features"))

(***************************************************************************)
(* Operations and their arguments.                                         *)
(***************************************************************************)
\* an argument: its value and which object it is.  `speed is SPEED_OFF`
\* compares identities: a string equal to "off" that was built or parsed at
\* run time is another object than the constant.
Ref(v, o) == [val |-> v, obj |-> o]
NoArg == Ref(None, "None")
is_SPEED_OFF(arg) == arg.obj = "SPEED_OFF"

Op(n, a, r) == [name |-> n, arg |-> a, result |-> r]

\* FanGroup.__init__ on every member-id list of the configuration
Init ==
    /\ entity_ids \in {[k \in 1..n |-> k] : n \in 0..MaxMembers}
    /\ is_on = FALSE
    /\ available = FALSE
    /\ speed = None
    /\ speed_list = PyList(<<>>)
    /\ direction = None
    /\ oscillating = None
    /\ supported_features = 0
    /\ async_unsub_state_changed = 0
    /\ snap = [e \in Entities |-> NoState]
    /\ calls = <<>>
    /\ inflight = <<>>
    /\ op = Op("__init__", NoArg, "ok")
    /\ released = <<>>
    /\ overwritten = {}
    /\ pending = 0

\* the state stores over member states D: ids outside the group are not read
Stores(D) ==
    {st \in [Entities -> D \cup {NoState}] :
        \A e \in Entities : e \notin Range(entity_ids) => st[e] = NoState}

\* async_update called directly: the coroutine is public and unguarded, and
\* async_add_entities(..., True) asks for one before the entity is added
Refresh(store) ==
    /\ async_update(store)
    /\ op' = Op("async_update", NoArg, IF update_raises(store) THEN "raised" ELSE "ok")
    /\ calls' = <<>>
    /\ UNCHANGED <<entity_ids, async_unsub_state_changed, inflight, released, overwritten,
                   pending>>

(***************************************************************************)
(* Member states the refresh is exercised on.  Speeds and directions are   *)
(* the strings Home Assistant fans report; integer direction codes are     *)
(* included because _mean_int is only defined on numbers.  Bit 8 of the    *)
(* capability mask is a capability outside SUPPORT_GROUP_FAN.              *)
(***************************************************************************)
Attrs(sp, sl, d, o, f) ==
    [speed |-> sp, speed_list |-> sl, direction |-> d, oscillating |-> o,
     supported_features |-> f]

StatusStates ==
    { MkState(STATE_ON, NoAttributes),
      MkState("off", NoAttributes),
      MkState(STATE_UNAVAILABLE, NoAttributes),
      MkState("unknown", NoAttributes),
      MkState(STATE_ON, Attrs(None, None, PyStr("forward"), None, None)) }

SpeedStates ==
    { MkState(STATE_ON, Attrs(PyStr("low"), None, None, None, None)),
      MkState(STATE_ON, Attrs(PyStr("high"), None, None, None, None)),
      MkState("off", Attrs(PyStr("high"), None, None, None, None)),
      MkState(STATE_ON, NoAttributes),
      MkState(STATE_ON, Attrs(PyStr("low"), None, PyStr("forward"), None, None)) }

DirectionStates ==
    { MkState(STATE_ON, Attrs(None, None, PyInt(1), PyBool(TRUE), None)),
      MkState(STATE_ON, Attrs(None, None, PyInt(2), PyBool(FALSE), None)),
      MkState("off", Attrs(None, None, PyInt(2), PyBool(TRUE), None)),
      MkState(STATE_ON, Attrs(None, None, PyStr("forward"), PyBool(TRUE), None)),
      MkState(STATE_ON, Attrs(None, None, None, PyBool(TRUE), None)),
      MkState(STATE_ON, NoAttributes) }

FeatureStates ==
    { MkState(STATE_ON, Attrs(None, None, None, None, PyInt(SUPPORT_SET_SPEED))),
      MkState("off", Attrs(None, None, None, None,
                           PyInt(SUPPORT_OSCILLATE + SUPPORT_DIRECTION))),
      MkState(STATE_ON, Attrs(None, None, None, None, PyInt(8 + SUPPORT_DIRECTION))),
      MkState(STATE_ON, NoAttributes),
      MkState(STATE_ON, Attrs(None, None, PyStr("forward"), None,
                              PyInt(SUPPORT_SET_SPEED + SUPPORT_DIRECTION))) }

SpeedListStates ==
    { MkState(STATE_ON, Attrs(None, PyList(<<"low", "low">>), None, None, None)),
      MkState("off", Attrs(None, PyList(<<"high">>), None, None, None)),
      MkState(STATE_ON, Attrs(None, PyList(<<"low", "medium">>), None, None, None)),
      MkState(STATE_ON, NoAttributes),
      MkState(STATE_ON, Attrs(None, PyList(<<"high">>), PyStr("forward"), None, None)) }

\* refreshes of a constructed entity over each family of member states
NextStatus == \E store \in Stores(StatusStates) : Refresh(store)
SpecStatus == Init /\ [][NextStatus]_vars

NextSpeed == \E store \in Stores(SpeedStates) : Refresh(store)
SpecSpeed == Init /\ [][NextSpeed]_vars

NextDirection == \E store \in Stores(DirectionStates) : Refresh(store)
SpecDirection == Init /\ [][NextDirection]_vars

NextFeatures == \E store \in Stores(FeatureStates) : Refresh(store)
SpecFeatures == Init /\ [][NextFeatures]_vars

NextSpeedList == \E store \in Stores(SpeedListStates) : Refresh(store)
SpecSpeedList == Init /\ [][NextSpeedList]_vars

(***************************************************************************)
(* The claims about the reducer.                                           *)
(***************************************************************************)
\* the members of the group that the last refresh resolved in the state store
Resolved == {e \in Range(entity_ids) : snap[e] # NoState}
\* a refresh has run (and nothing else is modelled to change its result)
Refreshed == op.name \in {"async_update", "async_added_to_hass"}

\* C4: after every refresh, is_on is true if and only if at least one member
\* that resolves in the state store has status on; it is false for an empty
\* snapshot, also when every member id is unresolvable.
C4_IsOnIffResolvedMemberOn ==
    Refreshed => (is_on <=> \E e \in Resolved : snap[e].state = "on")

\* C4 witness: a refresh of a group with an unresolvable member, an off member
\* and an on member reported the group on.
C4_Witness ==
    /\ op.name = "async_update"
    /\ is_on
    /\ \E e \in Range(entity_ids) : snap[e] = NoState
    /\ \E e \in Resolved : snap[e].state = "off"
    /\ Cardinality({e \in Resolved : snap[e].state = "on"}) = 1

\* C5: after every refresh, is_available is true if and only if at least one
\* resolved member has a status other than unavailable; it is false for an
\* empty snapshot (no members, or only unresolvable ones).
C5_AvailableIffResolvedMemberNotUnavailable ==
    Refreshed =>
        /\ available <=> \E e \in Resolved : snap[e].state # "unavailable"
        /\ Resolved = {} => ~available

\* C5 witness: a refresh of a group whose members are unresolvable or
\* unavailable, at least one of each, reported the group unavailable.
C5_Witness ==
    /\ op.name = "async_update"
    /\ ~available
    /\ \E e \in Range(entity_ids) : snap[e] = NoState
    /\ \E e \in Resolved : snap[e].state = "unavailable"

\* position of member e in the member-id list
Pos(e) == CHOOSE k \in 1..Len(entity_ids) : entity_ids[k] = e
\* the resolved members that supply attribute key
Suppliers(key) == {e \in Resolved : snap[e].attributes[key] # None}
\* the resolved members with status on that supply attribute key
OnSuppliers(key) == {e \in Suppliers(key) : snap[e].state = "on"}

\* number of members supplying speed v, and the first position it appears at
SpeedCount(v) == Cardinality({e \in Suppliers("speed") : snap[e].attributes.speed = v})
SpeedFirst(v) ==
    CHOOSE k \in 1..Len(entity_ids) :
        /\ entity_ids[k] \in Suppliers("speed")
        /\ snap[entity_ids[k]].attributes.speed = v
        /\ \A j \in 1..(k - 1) :
              ~(entity_ids[j] \in Suppliers("speed")
                /\ snap[entity_ids[j]].attributes.speed = v)

\* the plurality vote over the supplied speeds, first-seen value winning a tie
SpeedVote(v) ==
    /\ \E e \in Suppliers("speed") : snap[e].attributes.speed = v
    /\ \A f \in Suppliers("speed") :
          LET w == snap[f].attributes.speed
          IN  \/ SpeedCount(w) < SpeedCount(v)
              \/ SpeedCount(w) = SpeedCount(v) /\ SpeedFirst(v) <= SpeedFirst(w)

\* C1: after every refresh, speed is unset when no resolved member supplies a
\* speed, and otherwise the most frequent supplied value over all resolved
\* members (on or off), the first-seen value winning a tie.
C1_SpeedIsPluralityVote ==
    Refreshed =>
        IF Suppliers("speed") = {} THEN speed = None ELSE SpeedVote(speed)

RECURSIVE SumOver(_, _)
\* the sum of attribute key over the members S, a bool counting as 0 or 1
SumOver(S, key) ==
    IF S = {} THEN 0
    ELSE LET e == CHOOSE x \in S : TRUE
         IN  snap[e].attributes[key].i + SumOver(S \ {e}, key)

\* value is the reduce-attribute result for key over the on members: unset for
\* no supplier, the value itself for one, the mean truncated to an integer for
\* several numbers
ReducedOverOn(key, value) ==
    LET S == OnSuppliers(key)
        n == Cardinality(S)
    IN  /\ n = 0 => value = None
        /\ n = 1 => \E e \in S : value = snap[e].attributes[key]
        /\ (n > 1 /\ \A e \in S : snap[e].attributes[key].ty \in {"int", "bool"})
              => /\ value.ty = "int"
                 /\ value.i * n <= SumOver(S, key)
                 /\ SumOver(S, key) < (value.i + 1) * n

\* C2: after every refresh, direction and oscillating are the reduce-attribute
\* result over the resolved members with status on only (so attributes of
\* members that are not on cannot change them), and each is unset when no on
\* member supplies it.
C2_DirectionOscillatingFromOnMembers ==
    Refreshed =>
        /\ ReducedOverOn("direction", direction)
        /\ ReducedOverOn("oscillating", oscillating)

\* bit b (a power of two) is set in mask m
HasBit(m, b) == (m \div b) % 2 = 1
FeatureBits == {1, 2, 4, 8, 16}

\* C3: in every state, supported_features has no bit outside the group mask
\* {direction, oscillate, set-speed}, and after a refresh a bit of the mask is
\* set exactly when some resolved member reports it.
C3_FeaturesAreMaskedOr ==
    /\ \A b \in FeatureBits :
          HasBit(supported_features, b) => b \in {SUPPORT_DIRECTION, SUPPORT_OSCILLATE,
                                                  SUPPORT_SET_SPEED}
    /\ supported_features < 32
    /\ Refreshed =>
          \A b \in {SUPPORT_DIRECTION, SUPPORT_OSCILLATE, SUPPORT_SET_SPEED} :
              HasBit(supported_features, b) <=>
                  \E e \in Suppliers("supported_features") :
                      HasBit(snap[e].attributes.supported_features.i, b)

\* C6: after every refresh, speed_list is None when no resolved member
\* supplies a speed-list, and otherwise a list holding each element of the
\* union of the supplied lists exactly once and nothing else.
C6_SpeedListIsExactUnion ==
    Refreshed =>
        IF Suppliers("speed_list") = {} THEN speed_list = None
        ELSE LET U == UNION {Range(snap[e].attributes.speed_list.l) :
                                e \in Suppliers("speed_list")}
             IN  /\ speed_list.ty = "list"
                 /\ Range(speed_list.l) = U
                 /\ Len(speed_list.l) = Cardinality(U)

(***************************************************************************)
(* The command methods.  Each builds one data dict whose entity_id is the  *)
(* member-id list and awaits one blocking hass.services.async_call.  The   *)
(* await is where the coroutine is suspended: the call is issued in one    *)
(* step and answered in a later one, and listeners, updates, registration  *)
(* and other commands run in between.  The dispatcher either completes the *)
(* call or raises, and the method has no try/except, so the exception      *)
(* reaches the caller.                                                     *)
(***************************************************************************)
\* one hass.services.async_call(fan.DOMAIN, service, data, blocking=True), not
\* yet answered: data is entity_id plus params, a set of <<key, value>> pairs
ServiceCall(service, params) ==
    [domain |-> FAN_DOMAIN, service |-> service, entity_id |-> entity_ids,
     params |-> params, blocking |-> TRUE, outcome |-> "pending"]

Keys(params) == {p[1] : p \in params}

\* the calls with the dispatcher's answer
answered(cs, done) ==
    [k \in 1..Len(cs) |-> [cs[k] EXCEPT !.outcome = IF done THEN "done" ELSE "failed"]]

\* how a method that awaited these calls ends
result_of(cs) ==
    IF \E k \in 1..Len(cs) : cs[k].outcome = "failed" THEN "raised" ELSE "ok"

\* the calls of async_turn_off
turn_off_calls == <<ServiceCall("turn_off", {})>>

\* the calls of async_turn_on(speed), dropping the `speed is not None` test
turn_on_calls_always_speed(arg) ==
    IF is_SPEED_OFF(arg) THEN turn_off_calls
    ELSE <<ServiceCall("turn_on", {<<"speed", arg.val>>})>>

\* the calls of async_turn_on(speed)
turn_on_calls(arg) ==
    IF is_SPEED_OFF(arg) THEN turn_off_calls
    ELSE <<ServiceCall("turn_on", IF arg.val # None THEN {<<"speed", arg.val>>} ELSE {})>>

\* the calls of async_set_speed(speed)
set_speed_calls(arg) ==
    IF is_SPEED_OFF(arg) THEN turn_off_calls
    ELSE <<ServiceCall("set_speed", {<<"speed", arg.val>>})>>

\* a command coroutine suspended in its await: the method, its argument and
\* the calls it has issued
Invocation(n, a, cs) == [name |-> n, arg |-> a, calls |-> cs]

\* a command leaves every field of the entity alone
CommandFrame ==
    UNCHANGED <<entity_ids, is_on, available, speed, speed_list, direction, oscillating,
                supported_features, async_unsub_state_changed, snap, released,
                overwritten, pending>>

\* a command runs up to its await: the call is with the dispatcher
suspend(inv) ==
    /\ Len(inflight) < MaxInFlight
    /\ inflight' = Append(inflight, inv)
    /\ UNCHANGED <<calls, op>>

async_turn_on(arg) ==
    /\ suspend(Invocation("async_turn_on", arg, turn_on_calls(arg)))
    /\ CommandFrame

\* async_turn_off that also marks the group off
async_turn_off_optimistic ==
    /\ suspend(Invocation("async_turn_off", NoArg, turn_off_calls))
    /\ is_on' = FALSE
    /\ UNCHANGED <<entity_ids, available, speed, speed_list, direction, oscillating,
                   supported_features, async_unsub_state_changed, snap, released,
                   overwritten, pending>>

async_turn_off ==
    /\ suspend(Invocation("async_turn_off", NoArg, turn_off_calls))
    /\ CommandFrame

async_oscillate(arg) ==
    /\ suspend(Invocation("async_oscillate", arg,
                          <<ServiceCall("oscillate", {<<"oscillating", arg.val>>})>>))
    /\ CommandFrame

async_set_speed(arg) ==
    /\ suspend(Invocation("async_set_speed", arg, set_speed_calls(arg)))
    /\ CommandFrame

async_set_direction(arg) ==
    /\ suspend(Invocation("async_set_direction", arg,
                          <<ServiceCall("set_direction", {<<"direction", arg.val>>})>>))
    /\ CommandFrame

\* the dispatcher answers the call of the k-th suspended command: the await
\* returns and the method ends, or the await raises and the method raises
command_resumes(k, done) ==
    /\ k \in 1..Len(inflight)
    /\ calls' = answered(inflight[k].calls, done)
    /\ op' = Op(inflight[k].name, inflight[k].arg, result_of(calls'))
    /\ inflight' = SubSeq(inflight, 1, k - 1) \o SubSeq(inflight, k + 1, Len(inflight))
    /\ CommandFrame

(***************************************************************************)
(* Registration, removal and the state-change listener.  None of them has  *)
(* an await that suspends: async_update has none, so awaiting it runs it   *)
(* to its end.                                                             *)
(***************************************************************************)
\* async_track_state_change returns a new unsubscribe callable on every call:
\* handle Len(released) + 1.  The field is assigned without a look at the
\* handle it held, then async_update runs.
async_added_to_hass(store) ==
    /\ Len(released) < MaxRegistrations
    /\ async_unsub_state_changed' = Len(released) + 1
    /\ released' = Append(released, 0)
    /\ overwritten' =
          IF async_unsub_state_changed # 0
          THEN overwritten \cup {async_unsub_state_changed}
          ELSE overwritten
    /\ async_update(store)
    /\ op' = Op("async_added_to_hass", NoArg,
                IF update_raises(store) THEN "raised" ELSE "ok")
    /\ calls' = <<>>
    /\ UNCHANGED <<entity_ids, inflight, pending>>

\* async_will_remove_from_hass without the reset of the field to None
async_will_remove_from_hass_keeps_handle ==
    /\ IF async_unsub_state_changed # 0
       THEN released' = [released EXCEPT ![async_unsub_state_changed] = @ + 1]
       ELSE UNCHANGED released
    /\ op' = Op("async_will_remove_from_hass", NoArg, "ok")
    /\ calls' = <<>>
    /\ UNCHANGED <<entity_ids, is_on, available, speed, speed_list, direction,
                   oscillating, supported_features, snap, overwritten, pending,
                   inflight, async_unsub_state_changed>>

async_will_remove_from_hass ==
    /\ IF async_unsub_state_changed # 0
       THEN /\ released' = [released EXCEPT ![async_unsub_state_changed] = @ + 1]
            /\ async_unsub_state_changed' = 0
       ELSE UNCHANGED <<released, async_unsub_state_changed>>
    /\ op' = Op("async_will_remove_from_hass", NoArg, "ok")
    /\ calls' = <<>>
    /\ UNCHANGED <<entity_ids, is_on, available, speed, speed_list, direction,
                   oscillating, supported_features, snap, overwritten, pending,
                   inflight>>

\* the callback given to async_track_state_change, run while a subscription
\* that was not unsubscribed exists: self.async_schedule_update_ha_state(True)
\* asks for one more update
async_state_changed_listener ==
    /\ \E h \in 1..Len(released) : released[h] = 0
    /\ pending < MaxScheduled
    /\ pending' = pending + 1
    /\ op' = Op("async_state_changed_listener", NoArg, "ok")
    /\ calls' = <<>>
    /\ UNCHANGED <<entity_ids, is_on, available, speed, speed_list, direction,
                   oscillating, supported_features, async_unsub_state_changed, snap,
                   released, overwritten, inflight>>

\* one of the updates the listener asked for: async_update with force_refresh
ScheduledUpdate(store) ==
    /\ pending > 0
    /\ pending' = pending - 1
    /\ async_update(store)
    /\ op' = Op("async_update", NoArg, IF update_raises(store) THEN "raised" ELSE "ok")
    /\ calls' = <<>>
    /\ UNCHANGED <<entity_ids, async_unsub_state_changed, released, overwritten, inflight>>

\* arguments of the commands: no speed, the SPEED_OFF constant itself, a string
\* equal to it that is another object, and another speed
SpeedArgs ==
    { Ref(PyStr(SPEED_OFF), "SPEED_OFF"), Ref(PyStr(SPEED_OFF), "other"),
      Ref(PyStr("low"), "other") }
OscillateArgs == {Ref(PyBool(TRUE), "other"), Ref(PyBool(FALSE), "other")}
DirectionArgs == {Ref(PyStr("forward"), "other"), Ref(PyStr("reverse"), "other")}

\* a member is unknown to the state store, or on and running forward at low
LifeStates ==
    { MkState(STATE_ON, Attrs(PyStr("low"), None, PyStr("forward"), None, None)) }

Next ==
    \/ \E arg \in SpeedArgs \cup {NoArg} : async_turn_on(arg)
    \/ async_turn_off
    \/ \E arg \in OscillateArgs : async_oscillate(arg)
    \/ \E arg \in SpeedArgs : async_set_speed(arg)
    \/ \E arg \in DirectionArgs : async_set_direction(arg)
    \/ \E k \in 1..MaxInFlight, done \in BOOLEAN : command_resumes(k, done)
    \/ \E store \in Stores(LifeStates) : Refresh(store)
    \/ \E store \in Stores(LifeStates) : async_added_to_hass(store)
    \/ async_will_remove_from_hass
    \/ async_state_changed_listener
    \/ \E store \in Stores(LifeStates) : ScheduledUpdate(store)

Spec == Init /\ [][Next]_vars

\* the command methods of lines 133-187 with async_update: every way a call
\* is issued, answered and overtaken by an update, on an entity that is not
\* registered
NextCommands ==
    \/ \E arg \in SpeedArgs \cup {NoArg} : async_turn_on(arg)
    \/ async_turn_off
    \/ \E arg \in OscillateArgs : async_oscillate(arg)
    \/ \E arg \in SpeedArgs : async_set_speed(arg)
    \/ \E arg \in DirectionArgs : async_set_direction(arg)
    \/ \E k \in 1..MaxInFlight, done \in BOOLEAN : command_resumes(k, done)
    \/ \E store \in Stores(LifeStates) : Refresh(store)

SpecCommands == Init /\ [][NextCommands]_vars

\* registration, removal, the listener and the updates of lines 189-238, on
\* an entity that receives no command
NextLifecycle ==
    \/ \E store \in Stores(LifeStates) : Refresh(store)
    \/ \E store \in Stores(LifeStates) : async_added_to_hass(store)
    \/ async_will_remove_from_hass
    \/ async_state_changed_listener
    \/ \E store \in Stores(LifeStates) : ScheduledUpdate(store)

SpecLifecycle == Init /\ [][NextLifecycle]_vars

(***************************************************************************)
(* The claims about the commands and the subscription.                     *)
(***************************************************************************)
CommandNames ==
    {"async_turn_on", "async_turn_off", "async_oscillate", "async_set_speed",
     "async_set_direction"}

\* the calls a command has issued: those of the suspended commands and those
\* of the command that ended last
IssuedBy ==
    {<<inflight[k].name, inflight[k].arg, inflight[k].calls>> : k \in 1..Len(inflight)}
        \cup (IF op.name \in CommandNames THEN {<<op.name, op.arg, calls>>} ELSE {})

\* C7: for set_speed(speed) and turn_on(speed), whenever the speed argument
\* equals the "off" sentinel value, the only command sent to the dispatcher is
\* the "turn off" fan-out: no "set speed" and no "turn on" call is issued.
C7_OffSpeedOnlyTurnsOff ==
    \A c \in IssuedBy :
        (c[1] \in {"async_set_speed", "async_turn_on"} /\ c[2].val = PyStr("off"))
            => \A k \in 1..Len(c[3]) : c[3][k].service = "turn_off"

\* C8: every invocation of a command method results in exactly one blocking
\* dispatcher call whose target is the full member-id list, never one call per
\* member; turn_on without a speed argument carries no speed parameter.
C8_OneBlockingCallToAllMembers ==
    \A c \in IssuedBy :
        /\ Len(c[3]) = 1
        /\ c[3][1].domain = "fan"
        /\ c[3][1].blocking
        /\ c[3][1].entity_id = entity_ids
        /\ (c[1] = "async_turn_on" /\ c[2].val = None) =>
              /\ c[3][1].service = "turn_on"
              /\ "speed" \notin Keys(c[3][1].params)

\* C8 witness: turn_on() without a speed on a group of three members made one
\* "turn on" call to all three, with no parameter, and the call completed.
C8_Witness ==
    /\ op.name = "async_turn_on"
    /\ op.arg = NoArg
    /\ Len(entity_ids) = 3
    /\ Len(calls) = 1
    /\ calls[1].service = "turn_on"
    /\ calls[1].outcome = "done"
    /\ Len(calls[1].entity_id) = 3
    /\ calls[1].params = {}

\* C9 as claimed: over any sequence of registrations and removals no handle is
\* released twice, and after a removal every handle acquired so far has been
\* released exactly once.
C9_EveryHandleReleasedOnceAfterRemoval ==
    /\ \A h \in 1..Len(released) : released[h] <= 1
    /\ op.name = "async_will_remove_from_hass" =>
          \A h \in 1..Len(released) : released[h] = 1

\* C9 as amended: no handle is ever released twice (so a repeated removal
\* releases nothing further); whenever no handle is held, every handle that
\* was still in the field when a removal ran has been released exactly once;
\* a handle that a further registration replaced in the field while it was
\* held is never released.
C9_HeldHandleReleasedOnce ==
    /\ \A h \in 1..Len(released) : released[h] <= 1
    /\ async_unsub_state_changed = 0 =>
          \A h \in (1..Len(released)) \ overwritten : released[h] = 1
    /\ \A h \in overwritten : released[h] = 0
    /\ async_unsub_state_changed # 0 => released[async_unsub_state_changed] = 0

\* C9 witness: two registrations, each followed by a removal, released both
\* handles once.
C9_Witness ==
    /\ op.name = "async_will_remove_from_hass"
    /\ Len(released) = 2
    /\ overwritten = {}
    /\ async_unsub_state_changed = 0
    /\ \A h \in 1..2 : released[h] = 1

\* C10: no step of a command (issuing its call, or ending when the dispatcher
\* completes or fails the call) changes a field of the aggregate state or the
\* member-id list; a failed call reaches the caller as the exception, and the
\* command ends there with that one call (no retry); only a refresh
\* (async_update, also as run by registration) changes the aggregate state,
\* also while a command is suspended in its call.
C10_OnlyRefreshChangesAggregate ==
    [][ /\ entity_ids' = entity_ids
        /\ inflight' # inflight => aggregate' = aggregate
        /\ Len(inflight') < Len(inflight) =>
              /\ Len(inflight') = Len(inflight) - 1
              /\ op'.name \in CommandNames
              /\ Len(calls') = 1
              /\ calls'[1].outcome = "failed" <=> op'.result = "raised"
        /\ aggregate' # aggregate =>
              /\ op'.name \in {"async_update", "async_added_to_hass"}
              /\ inflight' = inflight
      ]_vars

\* C10 witness: the group reports on at speed low after a refresh, the
\* dispatcher call of a command has failed and the command has raised, and the
\* group still reports on at speed low.
C10_Witness ==
    /\ op.name \in CommandNames
    /\ op.result = "raised"
    /\ Len(calls) = 1
    /\ calls[1].outcome = "failed"
    /\ inflight = <<>>
    /\ is_on
    /\ speed = PyStr("low")
====
